---- MODULE Spec2Model ----
(***************************************************************************)
(* Model of the Tsunami bytecode encoder / validator (namespace Bytecode,   *)
(* src/Tsunami/src/Bytecode.cpp and src/Tsunami/include/Bytecode.h).        *)
(*                                                                         *)
(* Representation.  A buffer (std::string, std::vector<uint8_t>) is a       *)
(* sequence of bytes 0..255; a text string is the sequence of its ASCII     *)
(* codes.  A uint32_t that can exceed 2^31-1 (the hash) is kept as its four *)
(* bytes, least significant first, because TLC integers are 32 bit signed;  *)
(* a double is kept as its IEEE-754 bit pattern, eight bytes least          *)
(* significant first, which is what memcpy(&bits, &value, 8) yields on the  *)
(* little-endian targets the packed header struct is written for.           *)
(***************************************************************************)
EXTENDS Integers, Sequences, FiniteSets, Bags, TLC

(***************************************************************************)
(* Bounds of the model                                                     *)
(***************************************************************************)
\* longest sequence handed to CreatePushArray / CreatePushMultiple / pushArray
MaxValues == 2
\* most entries the number cache may hold (NaN keys never match, so it can grow)
MaxNumberEntries == 2
\* an instruction is added to a Compiler while its buffer is shorter than this
MaxCode == 16
\* Compiler::compile is called while the Compiler's buffer is shorter than this
MaxCompile == 19
\* most filler bytes after the first four of a buffer handed to Decompress
MaxPad == 18

(***************************************************************************)
(* Bytes and 32-bit words                                                  *)
(***************************************************************************)
Byte == 0..255

\* bit k (of weight w = 2^k) of the XOR of bytes a and b
XorBit(a, b, w) == (((a \div w) + (b \div w)) % 2) * w

\* operator ^ on two bytes
XorByte(a, b) ==
    XorBit(a, b, 1) + XorBit(a, b, 2) + XorBit(a, b, 4) + XorBit(a, b, 8)
    + XorBit(a, b, 16) + XorBit(a, b, 32) + XorBit(a, b, 64) + XorBit(a, b, 128)

\* the four bytes of a uint32_t, least significant first (little-endian memcpy)
U32LE(n) == << n % 256, (n \div 256) % 256, (n \div 65536) % 256, (n \div 16777216) % 256 >>

\* first n elements / all but the first n elements of a sequence
Take(s, n) == SubSeq(s, 1, IF n < Len(s) THEN n ELSE Len(s))
Drop(s, n) == SubSeq(s, n + 1, Len(s))

(***************************************************************************)
(* hashBytecode: 32-bit FNV-1a                                             *)
(***************************************************************************)
\* 2166136261 = 0x811C9DC5
HashInit == << 197, 157, 28, 129 >>

\* one round with the two statements exchanged: hash *= 16777619; hash ^= byte
HashStepMultiplyFirst ==
    [ h \in Byte \X Byte \X Byte \X Byte, byte \in Byte |->
        LET p0 == h[1] * 403
            p1 == h[2] * 403 + p0 \div 256
            p2 == h[3] * 403 + p1 \div 256
            p3 == h[4] * 403 + p2 \div 256 + h[1]
        IN  << XorByte(p0 % 256, byte), p1 % 256, p2 % 256, p3 % 256 >> ]

\* one round of the loop, hash ^= byte; hash *= 16777619 (= 2^24 + 403) modulo
\* 2^32, as a function of the hash before the round and the byte
HashStep ==
    [ h \in Byte \X Byte \X Byte \X Byte, byte \in Byte |->
        LET x0 == XorByte(h[1], byte)
            p0 == x0 * 403
            p1 == h[2] * 403 + p0 \div 256
            p2 == h[3] * 403 + p1 \div 256
            p3 == h[4] * 403 + p2 \div 256 + x0
        IN  << p0 % 256, p1 % 256, p2 % 256, p3 % 256 >> ]

\* the loop "for (i = 0; i < len; i++)" over data[lo .. hi] started with hash h:
\* the rounds of the lower half followed by the rounds of the upper half
HashRange[data \in Seq(Byte), lo \in Nat, hi \in Nat, h \in Byte \X Byte \X Byte \X Byte] ==
    IF lo > hi THEN h
    ELSE IF lo = hi THEN HashStep[h, data[lo]]
    ELSE LET mid == (lo + hi) \div 2
         IN  HashRange[data, mid + 1, hi, HashRange[data, lo, mid, h]]

\* the loop stopping one byte early: "i < size - 1"
hashBytecodeSkipLast(data) ==
    HashRange[data, 1, IF Len(data) = 0 THEN 0 ELSE Len(data) - 1, HashInit]

hashBytecode(data) == HashRange[data, 1, Len(data), HashInit]

(***************************************************************************)
(* writeVarInt, encodeOpcode, isDoubleByteOpcode                           *)
(***************************************************************************)
RECURSIVE writeVarInt(_)
\* the bytes writeVarInt appends for value (do ... while (value != 0))
writeVarInt(value) ==
    LET byte == value % 128
        rest == value \div 128
    IN  IF rest # 0 THEN << byte + 128 >> \o writeVarInt(rest) ELSE << byte >>

\* a shift by a whole byte
ShiftRight8(value) == << value[2], value[3], value[4], 0 >>

\* value >>= 7 on a uint32_t kept as its four bytes, least significant first
ShiftRight7(value) ==
    << value[1] \div 128 + (value[2] % 128) * 2,
       value[2] \div 128 + (value[3] % 128) * 2,
       value[3] \div 128 + (value[4] % 128) * 2,
       value[4] \div 128 >>

RECURSIVE writeVarIntU32(_)
\* writeVarInt over the whole range of uint32_t: value is kept as its four
\* bytes, so that values of 2^31 and more are covered
writeVarIntU32(value) ==
    LET byte == value[1] % 128
        rest == ShiftRight7(value)
    IN  IF rest # << 0, 0, 0, 0 >> THEN << byte + 128 >> \o writeVarIntU32(rest)
        ELSE << byte >>

\* the transform with an even multiplier
encodeOpcodeEven(opcode) == (opcode * 226) % 256

encodeOpcode(opcode) == (opcode * 227) % 256

LOP_LOADNIL == 1
LOP_LOADB == 2
LOP_LOADN == 3
LOP_LOADK == 4
LOP_MOVE == 5
LOP_SETTABLE == 13
LOP_CALL == 17
LOP_RETURN == 18
LOP_NEWTABLE == 45
LOP_SETLIST == 47

LBC_CONSTANT_BOOLEAN == 1
LBC_CONSTANT_NUMBER == 2
LBC_CONSTANT_STRING == 3

isDoubleByteOpcode(opcode) ==
    opcode \in {6, 7, 11, 14, 15, 16, 23, 24, 25, 26, 27, 28, 45, 47, 50, 68, 66, 67, 62, 63}

(***************************************************************************)
(* The packed header                                                       *)
(***************************************************************************)
HeaderSize == 12
SignatureSize == 20

\* the header with its two words exchanged: size written before hash
LuauBytecodeHeaderSizeFirst(version, flags, typesize, numbersize, hash, size) ==
    << version, flags, typesize, numbersize >> \o size \o hash

\* LuauBytecodeHeader laid out field by field in declaration order (pack(1)):
\* version, flags, typesize, numbersize, hash, size
LuauBytecodeHeader(version, flags, typesize, numbersize, hash, size) ==
    << version, flags, typesize, numbersize >> \o hash \o size

\* header = {0x02, 0x00, 0x08, 0x08, 0, 0}, inserted at the start of the buffer
HeaderPlaceholder == LuauBytecodeHeader(2, 0, 8, 8, U32LE(0), U32LE(0))

\* the update with header.size = bytecode.size(), the header counted in
UpdateHeaderWholeSize(bytecode) ==
    LET payload == Drop(bytecode, HeaderSize)
    IN  LuauBytecodeHeader(2, 0, 8, 8, hashBytecode(payload), U32LE(Len(bytecode)))
            \o payload

\* "Update header": header.size, header.hash, memcpy over the first 12 bytes
UpdateHeader(bytecode) ==
    LET payload == Drop(bytecode, HeaderSize)
        size == Len(bytecode) - HeaderSize
    IN  LuauBytecodeHeader(2, 0, 8, 8, hashBytecode(Take(payload, size)), U32LE(size))
            \o payload

\* the trailer with SizeK left at 0
ProtoTailNoSizeK(sizeK) ==
    writeVarInt(0) \o writeVarInt(0) \o writeVarInt(0) \o writeVarInt(0) \o << 0, 0 >>

\* the trailer every CreatePush* builder writes after its instructions:
\* SizeK, SizeP, linedefined, debugname, lineinfo, debuginfo
ProtoTail(sizeK) ==
    writeVarInt(sizeK) \o writeVarInt(0) \o writeVarInt(0) \o writeVarInt(0) \o << 0, 0 >>

(***************************************************************************)
(* Basic push operations                                                   *)
(***************************************************************************)
CreatePushNil ==
    UpdateHeader(
        HeaderPlaceholder
        \o writeVarInt(0)                       \* constants
        \o writeVarInt(1)                       \* functions
        \o writeVarInt(0) \o writeVarInt(0)     \* maxstacksize, numparams
        \o writeVarInt(1) \o writeVarInt(0)     \* numupvalues, is_vararg
        \o writeVarInt(1)                       \* instructions
        \o << encodeOpcode(LOP_LOADNIL), 0 >>
        \o ProtoTail(0))

CreatePushBoolean(value) ==
    UpdateHeader(
        HeaderPlaceholder
        \o writeVarInt(0)
        \o writeVarInt(1)
        \o writeVarInt(1) \o writeVarInt(0) \o writeVarInt(0) \o writeVarInt(0)
        \o writeVarInt(1)
        \o << encodeOpcode(LOP_LOADB), 0, IF value THEN 1 ELSE 0, 0 >>
        \o ProtoTail(0))

\* the builder writing the eight bytes most significant first
CreatePushNumberBigEndian(value) ==
    UpdateHeader(
        HeaderPlaceholder
        \o writeVarInt(1) \o << LBC_CONSTANT_NUMBER >> \o [ i \in 1..8 |-> value[9 - i] ]
        \o writeVarInt(1)
        \o writeVarInt(1) \o writeVarInt(0) \o writeVarInt(0) \o writeVarInt(0)
        \o writeVarInt(1)
        \o << encodeOpcode(LOP_LOADN), 0, 0 >>
        \o ProtoTail(1))

\* value is the bit pattern of the double, least significant byte first
CreatePushNumber(value) ==
    UpdateHeader(
        HeaderPlaceholder
        \o writeVarInt(1) \o << LBC_CONSTANT_NUMBER >> \o value
        \o writeVarInt(1)
        \o writeVarInt(1) \o writeVarInt(0) \o writeVarInt(0) \o writeVarInt(0)
        \o writeVarInt(1)
        \o << encodeOpcode(LOP_LOADN), 0, 0 >>
        \o ProtoTail(1))

CreatePushString(value) ==
    UpdateHeader(
        HeaderPlaceholder
        \o writeVarInt(1) \o << LBC_CONSTANT_STRING >> \o writeVarInt(Len(value)) \o value
        \o writeVarInt(1)
        \o writeVarInt(1) \o writeVarInt(0) \o writeVarInt(0) \o writeVarInt(0)
        \o writeVarInt(1)
        \o << encodeOpcode(LOP_LOADK), 0, 0 >>
        \o ProtoTail(1))

\* the builder with the two hints exchanged
CreatePushTableHintsSwapped(arraySize, hashSize) ==
    UpdateHeader(
        HeaderPlaceholder
        \o writeVarInt(0)
        \o writeVarInt(1)
        \o writeVarInt(1) \o writeVarInt(0) \o writeVarInt(0) \o writeVarInt(0)
        \o writeVarInt(1)
        \o << encodeOpcode(LOP_NEWTABLE), 0, hashSize % 256, arraySize % 256 >>
        \o ProtoTail(0))

CreatePushTable(arraySize, hashSize) ==
    UpdateHeader(
        HeaderPlaceholder
        \o writeVarInt(0)
        \o writeVarInt(1)
        \o writeVarInt(1) \o writeVarInt(0) \o writeVarInt(0) \o writeVarInt(0)
        \o writeVarInt(1)
        \o << encodeOpcode(LOP_NEWTABLE), 0, arraySize % 256, hashSize % 256 >>
        \o ProtoTail(0))

(***************************************************************************)
(* Doubles as bit patterns                                                 *)
(***************************************************************************)
RECURSIVE Pow(_, _)
Pow(b, n) == IF n = 0 THEN 1 ELSE b * Pow(b, n - 1)

RECURSIVE BitsOf(_, _)
\* the n low bits of v, most significant first
BitsOf(v, n) == IF n = 0 THEN << >> ELSE BitsOf(v \div 2, n - 1) \o << v % 2 >>

RECURSIVE BitsValue(_)
BitsValue(bits) ==
    IF bits = << >> THEN 0
    ELSE 2 * BitsValue(SubSeq(bits, 1, Len(bits) - 1)) + bits[Len(bits)]

\* sign, 11 exponent bits and 52 fraction bits packed into 8 bytes, low byte first
PackDouble(neg, biasedExp, frac) ==
    LET bits == << IF neg THEN 1 ELSE 0 >> \o BitsOf(biasedExp, 11) \o frac
    IN  [ i \in 1..8 |-> BitsValue(SubSeq(bits, 8 * (8 - i) + 1, 8 * (8 - i) + 8)) ]

DoubleZero(neg) == PackDouble(neg, 0, [ i \in 1..52 |-> 0 ])
DoubleInf(neg) == PackDouble(neg, 2047, [ i \in 1..52 |-> 0 ])
\* the quiet NaN strtod("nan") and the C library produce
DoubleNaN(neg) == PackDouble(neg, 2047, [ i \in 1..52 |-> IF i = 1 THEN 1 ELSE 0 ])

RECURSIVE FloorLog2(_, _)
\* the largest e with den * 2^e <= num, for num >= den > 0
FloorLog2(num, den) == IF num < 2 * den THEN 0 ELSE 1 + FloorLog2(num, 2 * den)

RECURSIVE CeilShift(_, _)
\* the smallest s with num * 2^s >= den, for 0 < num
CeilShift(num, den) == IF num >= den THEN 0 ELSE 1 + CeilShift(2 * num, den)

RECURSIVE FracBits(_, _, _)
\* n further binary digits of r / den (0 <= r < den), followed by the remainder:
\* the first n \div 2 digits, then the rest from the remainder they leave
FracBits(r, den, n) ==
    IF n = 0 THEN << r >>
    ELSE IF n = 1 THEN (IF 2 * r >= den THEN << 1, 2 * r - den >> ELSE << 0, 2 * r >>)
    ELSE LET h == n \div 2
             first == FracBits(r, den, h)
         IN  SubSeq(first, 1, h) \o FracBits(first[h + 1], den, n - h)

RECURSIVE IncBits(_)
\* bits + 1, wrapping to all zeros
IncBits(bits) ==
    IF bits = << >> THEN << >>
    ELSE IF bits[Len(bits)] = 0 THEN SubSeq(bits, 1, Len(bits) - 1) \o << 1 >>
         ELSE IncBits(SubSeq(bits, 1, Len(bits) - 1)) \o << 0 >>

\* the double nearest to (-1)^neg * num / den, round half to even, normal range
RationalToDouble(neg, num, den) ==
    IF num = 0 THEN DoubleZero(neg)
    ELSE LET up == IF num >= den THEN FloorLog2(num, den) ELSE 0
             down == IF num >= den THEN 0 ELSE CeilShift(num, den)
             n1 == num * Pow(2, down)
             d1 == den * Pow(2, up)
             fr == FracBits(n1 - d1, d1, 52)
             frac == SubSeq(fr, 1, 52)
             rem == fr[53]
             roundUp == 2 * rem > d1 \/ (2 * rem = d1 /\ frac[52] = 1)
             carry == roundUp /\ \A i \in 1..52 : frac[i] = 1
         IN  PackDouble(neg, 1023 + up - down + (IF carry THEN 1 ELSE 0),
                        IF roundUp THEN IncBits(frac) ELSE frac)

\* static_cast<double>(int)
IntToDouble(i) == RationalToDouble(i < 0, IF i < 0 THEN -i ELSE i, 1)

IsNaN(d) == d[8] % 128 = 127 /\ d[7] >= 240 /\ (d[7] > 240 \/ \E i \in 1..6 : d[i] # 0)
IsZero(d) == d[8] % 128 = 0 /\ \A i \in 1..7 : d[i] = 0

\* operator== on doubles, the key equality of std::unordered_map<double, _>
DoubleEq(a, b) == ~IsNaN(a) /\ ~IsNaN(b) /\ (a = b \/ (IsZero(a) /\ IsZero(b)))

(***************************************************************************)
(* strtod (C locale) on the texts of the model.  Texts use letters, digits, *)
(* blanks and the characters + - . " only; the forms strtod accepts that    *)
(* need other characters ("nan(...)", the binary exponent "p" of a hex      *)
(* literal) have no text in the model.                                     *)
(***************************************************************************)
Space == {9, 10, 11, 12, 13, 32}
Digit == 48..57
HexDigit == Digit \cup (65..70) \cup (97..102)

ToLower(c) == IF c \in 65..90 THEN c + 32 ELSE c
DigitVal(c) == IF c \in Digit THEN c - 48 ELSE ToLower(c) - 87

RECURSIVE Span(_, _, _)
\* the first index j >= i at which s has no character of set (Len(s) + 1 if none)
Span(s, i, set) == IF i <= Len(s) /\ s[i] \in set THEN Span(s, i + 1, set) ELSE i

RECURSIVE NumVal(_, _, _, _)
\* the value of the digits s[i .. j-1] in the given base
NumVal(s, i, j, base) ==
    IF j <= i THEN 0 ELSE NumVal(s, i, j - 1, base) * base + DigitVal(s[j - 1])

CharAt(s, i) == IF i >= 1 /\ i <= Len(s) THEN s[i] ELSE 0

MatchWord(s, i, w) == \A k \in 1..Len(w) : ToLower(CharAt(s, i + k - 1)) = w[k]

\* std::string::c_str() as a C function reads it: the bytes before the first NUL
CStr(s) == SubSeq(s, 1, Span(s, 1, 1..255) - 1)

\* [end |-> number of characters consumed (0: no conversion), value |-> result]
strtod(str) ==
    LET s == CStr(str)
        i0 == Span(s, 1, Space)
        hasSign == CharAt(s, i0) \in {43, 45}
        neg == CharAt(s, i0) = 45
        i1 == IF hasSign THEN i0 + 1 ELSE i0
        \* decimal: digits [. digits] [e [sign] digits]
        a == Span(s, i1, Digit)
        hasPoint == CharAt(s, a) = 46
        b == IF hasPoint THEN Span(s, a + 1, Digit) ELSE a
        nFrac == IF hasPoint THEN b - (a + 1) ELSE 0
        mantOK == (a - i1) + nFrac > 0
        hasE == CharAt(s, b) \in {101, 69}
        eNeg == CharAt(s, b + 1) = 45
        e0 == IF CharAt(s, b + 1) \in {43, 45} THEN b + 2 ELSE b + 1
        e1 == Span(s, e0, Digit)
        expOK == hasE /\ e1 > e0
        ex == IF ~expOK THEN 0
              ELSE IF eNeg THEN -NumVal(s, e0, e1, 10) ELSE NumVal(s, e0, e1, 10)
        N == NumVal(s, i1, a, 10) * Pow(10, nFrac) + NumVal(s, a + 1, b, 10)
        p == ex - nFrac
        \* hexadecimal: 0x hexdigits [. hexdigits]
        hexPrefix == CharAt(s, i1) = 48 /\ ToLower(CharAt(s, i1 + 1)) = 120
        ha == Span(s, i1 + 2, HexDigit)
        hPoint == CharAt(s, ha) = 46
        hb == IF hPoint THEN Span(s, ha + 1, HexDigit) ELSE ha
        hFrac == IF hPoint THEN hb - (ha + 1) ELSE 0
        hexOK == hexPrefix /\ (ha - (i1 + 2)) + hFrac > 0
        H == NumVal(s, i1 + 2, ha, 16) * Pow(16, hFrac) + NumVal(s, ha + 1, hb, 16)
    IN  IF MatchWord(s, i1, << 105, 110, 102, 105, 110, 105, 116, 121 >>)
        THEN [end |-> i1 + 7, value |-> DoubleInf(neg)]
        ELSE IF MatchWord(s, i1, << 105, 110, 102 >>)
        THEN [end |-> i1 + 2, value |-> DoubleInf(neg)]
        ELSE IF MatchWord(s, i1, << 110, 97, 110 >>)
        THEN [end |-> i1 + 2, value |-> DoubleNaN(neg)]
        ELSE IF hexOK
        THEN [end |-> hb - 1, value |-> RationalToDouble(neg, H, Pow(16, hFrac))]
        ELSE IF mantOK
        THEN [end |-> (IF expOK THEN e1 ELSE b) - 1,
              value |-> IF p >= 0 THEN RationalToDouble(neg, N * Pow(10, p), 1)
                        ELSE RationalToDouble(neg, N, Pow(10, -p))]
        ELSE [end |-> 0, value |-> DoubleZero(FALSE)]

\* the test both callers apply: end != c_str() && *end == '\0'
ParsesAsNumber(str) == strtod(str).end # 0 /\ strtod(str).end = Len(CStr(str))

(***************************************************************************)
(* Table and multiple-value operations                                     *)
(***************************************************************************)
RECURSIVE Flatten(_)
\* the concatenation of a sequence of byte sequences
Flatten(parts) ==
    IF parts = << >> THEN << >>
    ELSE IF Len(parts) = 1 THEN parts[1]
    ELSE LET half == Len(parts) \div 2
         IN  Flatten(SubSeq(parts, 1, half)) \o Flatten(SubSeq(parts, half + 1, Len(parts)))

\* one String entry of the constant pool: tag, varint length, raw bytes
StringConstant(str) == << LBC_CONSTANT_STRING >> \o writeVarInt(Len(str)) \o str

\* one Number entry of the constant pool: tag, 8 bytes of the bit pattern
NumberConstant(num) == << LBC_CONSTANT_NUMBER >> \o num

BooleanConstant(b) == << LBC_CONSTANT_BOOLEAN, IF b THEN 1 ELSE 0 >>

\* the builder without its early return for an empty vector
CreatePushArrayNoEmptyCase(values) ==
    LET n == Len(values) IN
    UpdateHeader(
        HeaderPlaceholder
        \o writeVarInt(n)
        \o Flatten([ i \in 1..n |-> StringConstant(values[i]) ])
        \o writeVarInt(1)
        \o writeVarInt(1 + n) \o writeVarInt(0) \o writeVarInt(0) \o writeVarInt(0)
        \o writeVarInt(n + 2)
        \o << encodeOpcode(LOP_NEWTABLE), 0, n % 256, 0 >>
        \o Flatten([ i \in 1..n |-> << encodeOpcode(LOP_LOADK), i % 256, (i - 1) % 256 >> ])
        \o << encodeOpcode(LOP_SETLIST), 0, n % 256, 0 >>
        \o ProtoTail(n))

CreatePushArray(values) ==
    IF values = << >> THEN CreatePushTable(0, 0)
    ELSE LET n == Len(values) IN
         UpdateHeader(
            HeaderPlaceholder
            \o writeVarInt(n)
            \o Flatten([ i \in 1..n |-> StringConstant(values[i]) ])
            \o writeVarInt(1)
            \o writeVarInt(1 + n) \o writeVarInt(0) \o writeVarInt(0) \o writeVarInt(0)
            \o writeVarInt(n + 2)
            \o << encodeOpcode(LOP_NEWTABLE), 0, n % 256, 0 >>
            \o Flatten([ i \in 1..n |-> << encodeOpcode(LOP_LOADK), i % 256, (i - 1) % 256 >> ])
            \o << encodeOpcode(LOP_SETLIST), 0, n % 256, 0 >>
            \o ProtoTail(n))

TextTrue == << 116, 114, 117, 101 >>
TextFalse == << 102, 97, 108, 115, 101 >>

RECURSIVE PickRange(_, _, _)
\* the indices i in lo..hi with flags[i], in increasing order
PickRange(flags, lo, hi) ==
    IF lo > hi THEN << >>
    ELSE IF lo = hi THEN (IF flags[lo] THEN << lo >> ELSE << >>)
    ELSE LET mid == (lo + hi) \div 2
         IN  PickRange(flags, lo, mid) \o PickRange(flags, mid + 1, hi)

\* the indices i of flags with flags[i], in increasing order
Pick(flags, n) == PickRange(flags, 1, n)

\* how many of the elements before position i carry the flag
CountBefore(flags, i) == Cardinality({ j \in 1..(i - 1) : flags[j] })

\* the buffer CreatePushMultiple writes once its first loop has classified the
\* values: isBool and isNumber are the two flag vectors, parsed[i] is the
\* double strtod returned for values[i]
MultipleModule(values, isBool, isNumber, parsed) ==
    LET n == Len(values)
        isString == [ i \in 1..n |-> ~isBool[i] /\ ~isNumber[i] ]
        numIdx == Pick(isNumber, n)
        boolIdx == Pick(isBool, n)
        strIdx == Pick(isString, n)
        numbers == [ k \in 1..Len(numIdx) |-> parsed[numIdx[k]] ]
        booleans == [ k \in 1..Len(boolIdx) |-> values[boolIdx[k]] = TextTrue ]
        strings == [ k \in 1..Len(strIdx) |-> values[strIdx[k]] ]
        totalConstants == Len(numbers) + Len(booleans) + Len(strings)
        load(i) ==
            IF isBool[i]
            THEN << encodeOpcode(LOP_LOADB), (i - 1) % 256,
                    IF booleans[CountBefore(isBool, i) + 1] THEN 1 ELSE 0, 0 >>
            ELSE IF isNumber[i]
            THEN << encodeOpcode(LOP_LOADN), (i - 1) % 256,
                    CountBefore(isNumber, i) % 256 >>
            ELSE << encodeOpcode(LOP_LOADK), (i - 1) % 256,
                    (Len(numbers) + Len(booleans) + CountBefore(isString, i)) % 256 >>
    IN  UpdateHeader(
            HeaderPlaceholder
            \o writeVarInt(totalConstants)
            \o Flatten([ k \in 1..Len(numbers) |-> NumberConstant(numbers[k]) ])
            \o Flatten([ k \in 1..Len(booleans) |-> BooleanConstant(booleans[k]) ])
            \o Flatten([ k \in 1..Len(strings) |-> StringConstant(strings[k]) ])
            \o writeVarInt(1)
            \o writeVarInt(n) \o writeVarInt(0) \o writeVarInt(0) \o writeVarInt(0)
            \o writeVarInt(n)
            \o Flatten([ i \in 1..n |-> load(i) ])
            \o ProtoTail(totalConstants))

CreatePushMultiple(values) ==
    IF values = << >> THEN CreatePushNil
    ELSE MultipleModule(
            values,
            [ i \in 1..Len(values) |-> values[i] \in { TextTrue, TextFalse } ],
            [ i \in 1..Len(values) |->
                values[i] \notin { TextTrue, TextFalse } /\ ParsesAsNumber(values[i]) ],
            [ i \in 1..Len(values) |-> strtod(values[i]).value ])

(***************************************************************************)
(* Compile: the literal translator                                         *)
(***************************************************************************)
\* "return "
TextReturn == << 114, 101, 116, 117, 114, 110, 32 >>
Quote == 34

\* Compile handing the quoted text to CreatePushString with its quotes on
CompileKeepQuotes(source) ==
    IF Take(source, 7) = TextReturn
    THEN LET value == Drop(source, 7) IN
         IF value = << 110, 105, 108 >> THEN CreatePushNil
         ELSE IF value = TextTrue THEN CreatePushBoolean(TRUE)
         ELSE IF value = TextFalse THEN CreatePushBoolean(FALSE)
         ELSE IF ParsesAsNumber(value) THEN CreatePushNumber(strtod(value).value)
         ELSE IF Len(value) >= 2 /\ value[1] = Quote /\ value[Len(value)] = Quote
         THEN CreatePushString(value)
         ELSE CreatePushNil
    ELSE CreatePushNil

Compile(source) ==
    IF Take(source, 7) = TextReturn
    THEN LET value == Drop(source, 7) IN
         IF value = << 110, 105, 108 >> THEN CreatePushNil
         ELSE IF value = TextTrue THEN CreatePushBoolean(TRUE)
         ELSE IF value = TextFalse THEN CreatePushBoolean(FALSE)
         ELSE IF ParsesAsNumber(value) THEN CreatePushNumber(strtod(value).value)
         ELSE IF Len(value) >= 2 /\ value[1] = Quote /\ value[Len(value)] = Quote
         THEN CreatePushString(SubSeq(value, 2, Len(value) - 1))
         ELSE CreatePushNil
    ELSE CreatePushNil

(***************************************************************************)
(* ValidateBytecode and Decompress                                         *)
(***************************************************************************)
\* the header fields as the struct overlay reads them from the first 12 bytes
ReadHeader(bytecode) ==
    [ version |-> bytecode[1], flags |-> bytecode[2],
      typesize |-> bytecode[3], numbersize |-> bytecode[4],
      hash |-> SubSeq(bytecode, 5, 8), size |-> SubSeq(bytecode, 9, 12) ]

\* the validator without its comparison of header.size
ValidateBytecodeNoSize(bytecode) ==
    IF Len(bytecode) < HeaderSize THEN FALSE
    ELSE LET header == ReadHeader(bytecode) IN
         IF header.version # 2 THEN FALSE
         ELSE header.hash = hashBytecode(Drop(bytecode, HeaderSize))

ValidateBytecode(bytecode) ==
    IF Len(bytecode) < HeaderSize THEN FALSE
    ELSE LET header == ReadHeader(bytecode) IN
         IF header.version # 2 THEN FALSE
         ELSE IF header.size # U32LE(Len(bytecode) - HeaderSize) THEN FALSE
         ELSE header.hash = hashBytecode(Drop(bytecode, HeaderSize))

\* "RBX2"
Magic == << 82, 66, 88, 50 >>

\* substr that starts one byte early
SubstrOneEarly(str, pos) ==
    IF pos > Len(str) THEN [threw |-> TRUE, ret |-> << >>]
    ELSE [threw |-> FALSE, ret |-> Drop(str, pos - 1)]

\* std::string::substr(pos): out_of_range when pos > size()
Substr(str, pos) ==
    IF pos > Len(str) THEN [threw |-> TRUE, ret |-> << >>]
    ELSE [threw |-> FALSE, ret |-> Drop(str, pos)]

\* the stripper without its test of the magic
DecompressAnyMagic(signedBytecode) ==
    IF Len(signedBytecode) >= 16
    THEN Substr(signedBytecode, SignatureSize)
    ELSE [threw |-> FALSE, ret |-> signedBytecode]

Decompress(signedBytecode) ==
    IF Len(signedBytecode) >= 16 /\ Take(signedBytecode, 4) = Magic
    THEN Substr(signedBytecode, SignatureSize)
    ELSE [threw |-> FALSE, ret |-> signedBytecode]

(***************************************************************************)
(* std::unordered_map as BytecodeCache uses it.  boolCache, stringCache and *)
(* integerCache are functions from the keys present to the stored buffers.  *)
(* numberCache is a bag of [key, val] entries: its keys are compared with   *)
(* operator== on doubles, under which 0.0 and -0.0 are one key and a NaN is *)
(* equal to no key, itself included, so equal bit patterns can be stored    *)
(* more than once.                                                         *)
(***************************************************************************)
EmptyMap == [ k \in {} |-> << >> ]

\* map.find(key) != map.end()
MapHas(map, key) == key \in DOMAIN map

\* a store that drops the other entries of the map
MapStoreAlone(map, key, val) == [ k \in {key} |-> val ]

\* map[key] = val
MapStore(map, key, val) == [ k \in (DOMAIN map) \cup {key} |-> IF k = key THEN val ELSE map[k] ]

\* numberCache.find(key): the entries whose key compares equal to key
NumberFind(entries, key) == { e \in BagToSet(entries) : DoubleEq(e.key, key) }

\* numberCache[key] = val: assign to the entry found, insert one otherwise
NumberStore(entries, key, val) ==
    LET found == NumberFind(entries, key) IN
    IF found # {}
    THEN LET e == CHOOSE x \in found : TRUE
         IN  (entries (-) SetToBag({e})) (+) SetToBag({[key |-> e.key, val |-> val]})
    ELSE entries (+) SetToBag({[key |-> key, val |-> val]})

(***************************************************************************)
(* Inputs the calls are made with                                          *)
(***************************************************************************)
Text_a == << 97 >>
Text_hi == << 104, 105 >>
Text_1 == << 49 >>
Text_1p5 == << 49, 46, 53 >>
Text_1x == << 49, 120 >>
Text_nan == << 110, 97, 110 >>

\* std::string arguments of CreatePushString, getString, pushString
Strings == { << >>, Text_hi }

\* double arguments: 0.0, -0.0, 1.5 and a NaN
Doubles == { DoubleZero(FALSE), DoubleZero(TRUE), RationalToDouble(FALSE, 3, 2),
             DoubleNaN(FALSE) }

\* int arguments of getInteger
Ints == { 0, -1 }

\* int arguments of the table size hints, registers and counts
Sizes == { 0, 1, 5, 255, 256, -1 }

\* elements of the vectors handed to CreatePushArray and CreatePushMultiple
Items == { << >>, Text_a, TextTrue, TextFalse, Text_1, Text_1p5, Text_1x }

RECURSIVE SeqsUpTo(_, _)
\* the sequences of at most n elements of set
SeqsUpTo(set, n) ==
    IF n = 0 THEN { << >> }
    ELSE LET shorter == SeqsUpTo(set, n - 1)
         IN  shorter \cup { Append(q, x) : q \in shorter, x \in set }

ValueLists == SeqsUpTo(Items, MaxValues)

\* 256 empty strings: the shortest vector whose last register, 256, and whose
\* length do not fit the uint8_t operands of CreatePushArray
LongList == [ i \in 1..256 |-> << >> ]

\* "a" and 256 empty strings: the shortest vector whose last register and
\* last constant index, 256, do not fit the uint8_t operands of
\* CreatePushMultiple and CreatePushArray
LongValues == [ i \in 1..257 |-> IF i = 1 THEN Text_a ELSE << >> ]

\* source texts handed to Compile
Sources ==
    { << >>, Text_a, SubSeq(TextReturn, 1, 6), TextReturn,
      TextReturn \o << 110, 105, 108 >>, TextReturn \o TextTrue, TextReturn \o TextFalse,
      TextReturn \o Text_1, TextReturn \o Text_1p5, TextReturn \o Text_1x,
      TextReturn \o << 45, 49 >>, TextReturn \o << 32, 49 >>, TextReturn \o << 49, 32 >>,
      << 32 >> \o TextReturn \o Text_1, TextReturn \o Text_nan,
      TextReturn \o << 48, 120, 49, 48 >>, TextReturn \o << 49, 101, 49 >>,
      TextReturn \o << Quote >>, TextReturn \o << Quote, Quote >>,
      TextReturn \o << Quote >> \o Text_hi \o << Quote >>,
      TextReturn \o << Quote, 97, Quote, 98, Quote >>,
      TextReturn \o << Quote >> \o Text_hi,
      TextReturn \o << 110, 105, 108, 32 >>, TextReturn \o << 84, 114, 117, 101 >> }

\* k filler bytes
Pad(k) == [ i \in 1..k |-> i ]

\* payloads of the buffers handed to ValidateBytecode
Payloads == { << >>, << 0 >>, << 1, 2, 3 >>, Drop(CreatePushNil, HeaderSize),
              Drop(CreatePushString(Text_hi), HeaderSize) }

\* a buffer received from elsewhere, described by the header fields written
\* into it, its payload and the number of bytes of it that arrived
Received ==
    { [ version |-> v, flags |-> t[1], typesize |-> t[2], numbersize |-> t[3],
        payload |-> p, size |-> n, hash |-> h, keep |-> k ] :
        v \in { 2, 0, 3 },
        t \in { << 0, 8, 8 >>, << 255, 0, 4 >> },
        p \in Payloads,
        n \in { Len(q) : q \in Payloads } \cup { 271 },
        h \in { << 0, 0, 0, 0 >> } \cup { hashBytecode(q) : q \in Payloads },
        k \in { 0, HeaderSize - 1, HeaderSize, Len(CreatePushString(Text_hi)) } }

\* buffers the builders returned, about to be altered on their way
Accepted == { CreatePushNil, CreatePushString(Text_hi) }

\* a buffer of Accepted received with one byte of its payload set to any
\* value, its header and its length as they were
Altered ==
    UNION { { [ version |-> 2, flags |-> 0, typesize |-> 8, numbersize |-> 8,
                payload |-> [ Drop(base, HeaderSize) EXCEPT ![i] = v ],
                size |-> Len(base) - HeaderSize,
                hash |-> SubSeq(base, 5, 8),
                keep |-> Len(base) ] :
              i \in 1..(Len(base) - HeaderSize), v \in Byte } :
            base \in Accepted }

\* the bytes of such a buffer
Bytes(r) ==
    Take(LuauBytecodeHeader(r.version, r.flags, r.typesize, r.numbersize, r.hash, U32LE(r.size))
            \o r.payload, r.keep)

\* buffers handed to Decompress: with the magic, with a near miss of it and
\* without it, of every length around the 16 and 20 byte thresholds
Wrapped ==
    { Magic \o Pad(k) : k \in 0..MaxPad }
    \cup { Take(Magic, k) : k \in 0..3 }
    \cup { << 82, 66, 88, 51 >> \o Pad(k) : k \in 0..MaxPad }
    \cup { Magic \o Pad(16) \o CreatePushNil, CreatePushNil, CreatePushBoolean(TRUE) }

(***************************************************************************)
(* State                                                                   *)
(***************************************************************************)
\* values handed to writeVarInt, as four bytes each: both sides of every
\* length boundary, 2^31 and the largest uint32_t
VarIntValues ==
    { U32LE(n) : n \in { 0, 1, 127, 128, 255, 300, 16383, 16384, 2097151, 2097152,
                         268435455, 268435456, 2147483647 } }
    \cup { << 0, 0, 0, 128 >>, << 254, 255, 255, 255 >>, << 255, 255, 255, 255 >> }

\* 128 letters a: the shortest string whose length takes two varint bytes
Text_long == [ i \in 1..128 |-> 97 ]

Text_foobar == << 102, 111, 111, 98, 97, 114 >>

\* byte sequences handed to hashBytecode
HashData ==
    Items \cup { << >>, << 0 >>, << 255 >>, << 0, 0 >>, << 128, 1 >>,
                 << 255, 255, 255, 255 >>, Text_foobar, Magic }

VARIABLES
    caller,           \* what the caller works with: "functions", "cache" or "compiler"
    boolCache,        \* BytecodeCache::boolCache
    numberCache,      \* BytecodeCache::numberCache
    stringCache,      \* BytecodeCache::stringCache
    integerCache,     \* BytecodeCache::integerCache
    bytecode,         \* Compiler::bytecode
    constants,        \* Compiler::constants
    numberConstants,  \* Compiler::numberConstants
    boolConstants,    \* Compiler::boolConstants
    call,             \* the last call made: its name, its argument, cache hit or miss
    result            \* what it returned, or that it threw

cacheVars == << boolCache, numberCache, stringCache, integerCache >>
compilerVars == << bytecode, constants, numberConstants, boolConstants >>
vars == << caller, boolCache, numberCache, stringCache, integerCache,
           bytecode, constants, numberConstants, boolConstants, call, result >>

Returned(v) == [ threw |-> FALSE, ret |-> v ]
Called(op, arg) == [ op |-> op, arg |-> arg, hit |-> FALSE, done |-> TRUE ]
Request(op, arg) == [ op |-> op, arg |-> arg, hit |-> FALSE, done |-> FALSE ]

\* the calls of the free functions, each with the argument it is made with
Requests ==
    { Request("CreatePushNil", << >>) }
    \cup { Request("CreatePushBoolean", value) : value \in BOOLEAN }
    \cup { Request("CreatePushNumber", value) : value \in Doubles }
    \cup { Request("CreatePushString", value) : value \in Strings \cup { Text_a, Text_long } }
    \cup { Request("CreatePushTable", << arraySize, hashSize >>) : arraySize \in Sizes, hashSize \in Sizes }
    \cup { Request("CreatePushArray", values) : values \in ValueLists \cup { LongList, LongValues } }
    \cup { Request("CreatePushMultiple", values) : values \in ValueLists \cup { LongValues } }
    \cup { Request("Compile", source) : source \in Sources }
    \cup { Request("Decompress", signedBytecode) : signedBytecode \in Wrapped }
    \cup { Request("encodeOpcode", opcode) : opcode \in Byte }
    \cup { Request("writeVarInt", value) : value \in VarIntValues }
    \cup { Request("hashBytecode", data) : data \in HashData }
    \cup { [ op |-> "ValidateBytecode", arg |-> Bytes(r), hit |-> FALSE, done |-> FALSE, made |-> r ] :
            r \in Received \cup Altered }

\* a caller about to call one free function, or one holding a default-constructed
\* BytecodeCache, or one holding a Compiler after Compiler::Compiler()
Init ==
    /\ \/ caller = "functions" /\ call \in Requests
       \/ caller \in { "cache", "compiler" } /\ call = Called("none", << >>)
    /\ boolCache = EmptyMap
    /\ numberCache = EmptyBag
    /\ stringCache = EmptyMap
    /\ integerCache = EmptyMap
    /\ bytecode = HeaderPlaceholder
    /\ constants = << >>
    /\ numberConstants = << >>
    /\ boolConstants = << >>
    /\ result = Returned(<< >>)

(***************************************************************************)
(* Calls of the free functions                                             *)
(***************************************************************************)
\* the requested call of a function that has no state returns res
Pure(op, res) ==
    /\ caller = "functions"
    /\ call.op = op
    /\ ~call.done
    /\ call' = [ call EXCEPT !.done = TRUE ]
    /\ result' = res
    /\ UNCHANGED << caller, cacheVars, compilerVars >>

CallCreatePushNil == Pure("CreatePushNil", Returned(CreatePushNil))
CallCreatePushBoolean == Pure("CreatePushBoolean", Returned(CreatePushBoolean(call.arg)))
CallCreatePushNumber == Pure("CreatePushNumber", Returned(CreatePushNumber(call.arg)))
CallCreatePushString == Pure("CreatePushString", Returned(CreatePushString(call.arg)))
CallCreatePushTable == Pure("CreatePushTable", Returned(CreatePushTable(call.arg[1], call.arg[2])))
CallCreatePushArray == Pure("CreatePushArray", Returned(CreatePushArray(call.arg)))
CallCreatePushMultiple == Pure("CreatePushMultiple", Returned(CreatePushMultiple(call.arg)))
CallCompile == Pure("Compile", Returned(Compile(call.arg)))
CallDecompress == Pure("Decompress", Decompress(call.arg))
CallValidateBytecode == Pure("ValidateBytecode", Returned(ValidateBytecode(call.arg)))
CallEncodeOpcode == Pure("encodeOpcode", Returned(encodeOpcode(call.arg)))
CallWriteVarInt == Pure("writeVarInt", Returned(writeVarIntU32(call.arg)))
CallHashBytecode == Pure("hashBytecode", Returned(hashBytecode(call.arg)))

(***************************************************************************)
(* BytecodeCache                                                           *)
(***************************************************************************)
getBoolean(value) ==
    /\ caller = "cache"
    /\ IF MapHas(boolCache, value)
       THEN /\ result' = Returned(boolCache[value])
            /\ call' = [ op |-> "getBoolean", arg |-> value, hit |-> TRUE, done |-> TRUE ]
            /\ UNCHANGED boolCache
       ELSE /\ boolCache' = MapStore(boolCache, value, CreatePushBoolean(value))
            /\ result' = Returned(CreatePushBoolean(value))
            /\ call' = [ op |-> "getBoolean", arg |-> value, hit |-> FALSE, done |-> TRUE ]
    /\ UNCHANGED << caller, numberCache, stringCache, integerCache, compilerVars >>

getNumber(value) ==
    /\ caller = "cache"
    /\ LET found == NumberFind(numberCache, value) IN
       IF found # {}
       THEN /\ result' = Returned((CHOOSE e \in found : TRUE).val)
            /\ call' = [ op |-> "getNumber", arg |-> value, hit |-> TRUE, done |-> TRUE ]
            /\ UNCHANGED numberCache
       ELSE /\ BagCardinality(numberCache) < MaxNumberEntries
            /\ numberCache' = NumberStore(numberCache, value, CreatePushNumber(value))
            /\ result' = Returned(CreatePushNumber(value))
            /\ call' = [ op |-> "getNumber", arg |-> value, hit |-> FALSE, done |-> TRUE ]
    /\ UNCHANGED << caller, boolCache, stringCache, integerCache, compilerVars >>

getString(value) ==
    /\ caller = "cache"
    /\ IF MapHas(stringCache, value)
       THEN /\ result' = Returned(stringCache[value])
            /\ call' = [ op |-> "getString", arg |-> value, hit |-> TRUE, done |-> TRUE ]
            /\ UNCHANGED stringCache
       ELSE /\ stringCache' = MapStore(stringCache, value, CreatePushString(value))
            /\ result' = Returned(CreatePushString(value))
            /\ call' = [ op |-> "getString", arg |-> value, hit |-> FALSE, done |-> TRUE ]
    /\ UNCHANGED << caller, boolCache, numberCache, integerCache, compilerVars >>

\* getInteger looking its value up in, and storing it into, the number map
getIntegerInNumberMap(value) ==
    /\ caller = "cache"
    /\ LET found == NumberFind(numberCache, IntToDouble(value)) IN
       IF found # {}
       THEN /\ result' = Returned((CHOOSE e \in found : TRUE).val)
            /\ call' = [ op |-> "getInteger", arg |-> value, hit |-> TRUE, done |-> TRUE ]
            /\ UNCHANGED numberCache
       ELSE /\ BagCardinality(numberCache) < MaxNumberEntries
            /\ numberCache' = NumberStore(numberCache, IntToDouble(value),
                                          CreatePushNumber(IntToDouble(value)))
            /\ result' = Returned(CreatePushNumber(IntToDouble(value)))
            /\ call' = [ op |-> "getInteger", arg |-> value, hit |-> FALSE, done |-> TRUE ]
    /\ UNCHANGED << caller, boolCache, stringCache, integerCache, compilerVars >>

getInteger(value) ==
    /\ caller = "cache"
    /\ IF MapHas(integerCache, value)
       THEN /\ result' = Returned(integerCache[value])
            /\ call' = [ op |-> "getInteger", arg |-> value, hit |-> TRUE, done |-> TRUE ]
            /\ UNCHANGED integerCache
       ELSE /\ integerCache' = MapStore(integerCache, value, CreatePushNumber(IntToDouble(value)))
            /\ result' = Returned(CreatePushNumber(IntToDouble(value)))
            /\ call' = [ op |-> "getInteger", arg |-> value, hit |-> FALSE, done |-> TRUE ]
    /\ UNCHANGED << caller, boolCache, numberCache, stringCache, compilerVars >>

CacheClear ==
    /\ caller = "cache"
    /\ boolCache' = EmptyMap
    /\ numberCache' = EmptyBag
    /\ stringCache' = EmptyMap
    /\ integerCache' = EmptyMap
    /\ call' = Called("BytecodeCache::clear", << >>)
    /\ result' = Returned(<< >>)
    /\ UNCHANGED << caller, compilerVars >>

(***************************************************************************)
(* Compiler                                                                *)
(***************************************************************************)
\* int arguments naming registers, counts and indices
Regs == { 0, 255 }

\* static_cast<uint8_t>(int)
U8(i) == i % 256

\* vectors handed to pushArray
StringLists == SeqsUpTo(Strings, MaxValues)

\* a member function that appends code to bytecode and strings to constants
Emit(op, arg, code, strs) ==
    /\ caller = "compiler"
    /\ Len(bytecode) < MaxCode
    /\ bytecode' = bytecode \o code
    /\ constants' = constants \o strs
    /\ call' = Called(op, arg)
    /\ result' = Returned(<< >>)
    /\ UNCHANGED << caller, cacheVars, numberConstants, boolConstants >>

addLoadNil(reg) ==
    Emit("addLoadNil", reg, << encodeOpcode(LOP_LOADNIL), U8(reg) >>, << >>)

addLoadBool(reg, value, jump) ==
    Emit("addLoadBool", << reg, value, jump >>,
         << encodeOpcode(LOP_LOADB), U8(reg), IF value THEN 1 ELSE 0, U8(jump) >>, << >>)

addLoadConst(reg, constIdx) ==
    Emit("addLoadConst", << reg, constIdx >>,
         << encodeOpcode(LOP_LOADK), U8(reg), U8(constIdx) >>, << >>)

addMove(dest, src) ==
    Emit("addMove", << dest, src >>, << encodeOpcode(LOP_MOVE), U8(dest), U8(src) >>, << >>)

addNewTable(reg, arraySize, hashSize) ==
    Emit("addNewTable", << reg, arraySize, hashSize >>,
         << encodeOpcode(LOP_NEWTABLE), U8(reg), U8(arraySize), U8(hashSize) >>, << >>)

addSetTable(tableReg, keyReg, valueReg) ==
    Emit("addSetTable", << tableReg, keyReg, valueReg >>,
         << encodeOpcode(LOP_SETTABLE), U8(tableReg), U8(keyReg), U8(valueReg) >>, << >>)

addSetList(tableReg, startReg, count, tableIndex) ==
    Emit("addSetList", << tableReg, startReg, count, tableIndex >>,
         << encodeOpcode(LOP_SETLIST), U8(tableReg), U8(count), U8(tableIndex) >>, << >>)

addReturn(startReg, count) ==
    Emit("addReturn", << startReg, count >>,
         << encodeOpcode(LOP_RETURN), U8(startReg), U8(count) >>, << >>)

addCall(funcReg, argCount, resultCount) ==
    Emit("addCall", << funcReg, argCount, resultCount >>,
         << encodeOpcode(LOP_CALL), U8(funcReg), U8(argCount + 1), U8(resultCount + 1) >>, << >>)

pushNil == Emit("pushNil", << >>, << encodeOpcode(LOP_LOADNIL), 0 >>, << >>)

pushBoolean(value) ==
    Emit("pushBoolean", value, << encodeOpcode(LOP_LOADB), 0, IF value THEN 1 ELSE 0, 0 >>, << >>)

\* addNumberConstant, then LOADN with the index it returned
pushNumber(value) ==
    /\ caller = "compiler"
    /\ Len(bytecode) < MaxCode
    /\ numberConstants' = Append(numberConstants, value)
    /\ bytecode' = bytecode \o << encodeOpcode(LOP_LOADN), 0, U8(Len(numberConstants')  - 1) >>
    /\ call' = Called("pushNumber", value)
    /\ result' = Returned(<< >>)
    /\ UNCHANGED << caller, cacheVars, constants, boolConstants >>

\* addConstant, then LOADK with the index it returned
pushString(value) ==
    Emit("pushString", value,
         << encodeOpcode(LOP_LOADK), 0, U8(Len(constants)) >>, << value >>)

\* the bytes of Compiler::pushTable
PushTableCode(arraySize, hashSize) ==
    << encodeOpcode(LOP_NEWTABLE), 0, U8(arraySize), U8(hashSize) >>

pushTable(arraySize, hashSize) ==
    Emit("pushTable", << arraySize, hashSize >>, PushTableCode(arraySize, hashSize), << >>)

pushArray(values) ==
    IF values = << >>
    THEN Emit("pushArray", values, PushTableCode(0, 0), << >>)
    ELSE Emit("pushArray", values,
              PushTableCode(Len(values), 0)
              \o Flatten([ i \in 1..Len(values) |->
                    << encodeOpcode(LOP_LOADK), U8(i), U8(Len(constants) + i - 1) >> ])
              \o << encodeOpcode(LOP_SETLIST), 0, U8(Len(values)), 0 >>,
              values)

\* what compile() appends to the member bytecode: the member functions
\* writeVarInt and writeDouble write there, not into the local result
CompileLeak ==
    writeVarInt(Len(constants) + Len(numberConstants) + Len(boolConstants))
    \o Flatten(numberConstants)
    \o Flatten([ k \in 1..Len(constants) |-> writeVarInt(Len(constants[k])) ])

\* compile() returning its local result with the placeholder header still in it
CompileResultUnpatched ==
    HeaderPlaceholder
    \o Flatten([ k \in 1..Len(numberConstants) |-> << LBC_CONSTANT_NUMBER >> ])
    \o Flatten([ k \in 1..Len(boolConstants) |-> BooleanConstant(boolConstants[k]) ])
    \o Flatten([ k \in 1..Len(constants) |-> << LBC_CONSTANT_STRING >> \o constants[k] ])

\* what compile() returns: the local result with its header updated
CompileResult ==
    UpdateHeader(
        HeaderPlaceholder
        \o Flatten([ k \in 1..Len(numberConstants) |-> << LBC_CONSTANT_NUMBER >> ])
        \o Flatten([ k \in 1..Len(boolConstants) |-> BooleanConstant(boolConstants[k]) ])
        \o Flatten([ k \in 1..Len(constants) |-> << LBC_CONSTANT_STRING >> \o constants[k] ]))

compile ==
    /\ caller = "compiler"
    /\ Len(bytecode) < MaxCompile
    /\ bytecode' = bytecode \o CompileLeak
    /\ call' = Called("compile", << >>)
    /\ result' = Returned(CompileResult)
    /\ UNCHANGED << caller, cacheVars, constants, numberConstants, boolConstants >>

getBytecode ==
    /\ caller = "compiler"
    /\ call' = Called("getBytecode", << >>)
    /\ result' = Returned(bytecode)
    /\ UNCHANGED << caller, cacheVars, compilerVars >>

CompilerClear ==
    /\ caller = "compiler"
    /\ bytecode' = HeaderPlaceholder
    /\ constants' = << >>
    /\ numberConstants' = << >>
    /\ boolConstants' = << >>
    /\ call' = Called("Compiler::clear", << >>)
    /\ result' = Returned(<< >>)
    /\ UNCHANGED << caller, cacheVars >>

(***************************************************************************)
(* Specification                                                           *)
(***************************************************************************)
Next ==
    \/ CallCreatePushNil
    \/ CallCreatePushBoolean
    \/ CallCreatePushNumber
    \/ CallCreatePushString
    \/ CallCreatePushTable
    \/ CallCreatePushArray
    \/ CallCreatePushMultiple
    \/ CallCompile
    \/ CallValidateBytecode
    \/ CallDecompress
    \/ CallEncodeOpcode
    \/ CallWriteVarInt
    \/ CallHashBytecode
    \/ \E value \in BOOLEAN : getBoolean(value)
    \/ \E value \in Doubles : getNumber(value)
    \/ \E value \in Strings : getString(value)
    \/ \E value \in Ints : getInteger(value)
    \/ CacheClear
    \/ \E reg \in Regs : addLoadNil(reg)
    \/ \E reg \in Regs, value \in BOOLEAN, jump \in Regs : addLoadBool(reg, value, jump)
    \/ \E reg \in Regs, constIdx \in Regs : addLoadConst(reg, constIdx)
    \/ \E dest \in Regs, src \in Regs : addMove(dest, src)
    \/ \E reg \in Regs, arraySize \in Regs, hashSize \in Regs : addNewTable(reg, arraySize, hashSize)
    \/ \E tableReg \in Regs, keyReg \in Regs, valueReg \in Regs : addSetTable(tableReg, keyReg, valueReg)
    \/ \E tableReg \in Regs, startReg \in Regs, count \in Regs, tableIndex \in Regs :
            addSetList(tableReg, startReg, count, tableIndex)
    \/ \E startReg \in Regs, count \in Regs : addReturn(startReg, count)
    \/ \E funcReg \in Regs, argCount \in Regs, resultCount \in Regs : addCall(funcReg, argCount, resultCount)
    \/ pushNil
    \/ \E value \in BOOLEAN : pushBoolean(value)
    \/ \E value \in Doubles : pushNumber(value)
    \/ \E value \in Strings : pushString(value)
    \/ \E arraySize \in Regs, hashSize \in Regs : pushTable(arraySize, hashSize)
    \/ \E values \in StringLists : pushArray(values)
    \/ compile
    \/ getBytecode
    \/ CompilerClear

Spec == Init /\ [][Next]_vars

(***************************************************************************)
(* The entry points the properties speak of                                *)
(***************************************************************************)
\* the seven builders of the "Push operations" and "Table operations"
CreatePushOps ==
    { "CreatePushNil", "CreatePushBoolean", "CreatePushNumber", "CreatePushString",
      "CreatePushTable", "CreatePushArray", "CreatePushMultiple" }

\* the entry points that return an encoded buffer
EncoderOps == CreatePushOps \cup { "Compile", "compile" }

\* the getters of BytecodeCache
CacheGetOps == { "getBoolean", "getNumber", "getString", "getInteger" }

\* everything that hands a locally built buffer to its caller
ProducerOps == EncoderOps \cup CacheGetOps

(***************************************************************************)
(* Properties                                                              *)
(***************************************************************************)
\* C1: the buffer each of the seven CreatePush* builders returns, for every
\* input, is accepted by ValidateBytecode.
C1_BuildersValidate ==
    (call.done /\ call.op \in CreatePushOps)
        => (~result.threw /\ ValidateBytecode(result.ret))

\* CreatePushMultiple has returned for a number, a boolean mix
C1_Witness ==
    /\ call.done /\ call.op = "CreatePushMultiple"
    /\ call.arg = << Text_1p5, TextTrue >>
    /\ ValidateBytecode(result.ret)

\* C2: every buffer a CreatePush* builder, Compile or Compiler::compile returns
\* has header.size = buffer length - header size and header.hash = the
\* checksum of the bytes after the header.
C2_SizeAndHash ==
    (call.done /\ call.op \in EncoderOps) =>
        /\ Len(result.ret) >= HeaderSize
        /\ ReadHeader(result.ret).size = U32LE(Len(result.ret) - HeaderSize)
        /\ ReadHeader(result.ret).hash = hashBytecode(Drop(result.ret, HeaderSize))

\* Compiler::compile has returned a buffer with a payload, numbers among it
C2_Witness ==
    /\ call.op = "compile"
    /\ numberConstants # << >>
    /\ Len(result.ret) > HeaderSize

\* C3: ValidateBytecode never throws, and returns false exactly when the
\* buffer is shorter than the header, or the version written is not 2, or the
\* size written is not the number of bytes after the header, or the hash
\* written is not the checksum of those bytes; flags, typesize, numbersize and
\* the payload's contents do not matter.
C3_ValidateExactly ==
    (call.done /\ call.op = "ValidateBytecode") =>
        /\ ~result.threw
        /\ result.ret =
              ~ \/ Len(call.arg) < HeaderSize
                \/ call.made.version # 2
                \/ call.made.size # Len(call.arg) - HeaderSize
                \/ call.made.hash # hashBytecode(Drop(call.arg, HeaderSize))

\* a buffer with unusual flags and type sizes and a payload has been accepted
C3_Witness ==
    /\ call.done /\ call.op = "ValidateBytecode"
    /\ result.ret = TRUE
    /\ call.made.flags = 255 /\ call.made.numbersize = 4
    /\ Len(call.arg) > HeaderSize

\* C4 (as the code has it): in every buffer the encoder produces the header
\* is version, flags, typesize, numbersize, hash, size: bytes 4..7 hold the
\* little-endian checksum of the payload, bytes 8..11 its little-endian length.
C4_HashThenSize ==
    (call.done /\ call.op \in ProducerOps) =>
        /\ Len(result.ret) >= HeaderSize
        /\ Take(result.ret, 4) = << 2, 0, 8, 8 >>
        /\ SubSeq(result.ret, 5, 8) = hashBytecode(Drop(result.ret, HeaderSize))
        /\ SubSeq(result.ret, 9, 12) = U32LE(Len(result.ret) - HeaderSize)

\* CreatePushNil has returned: 15 payload bytes, so bytes 8..11 are 15, 0, 0, 0
C4_Witness ==
    /\ call.done /\ call.op = "CreatePushNil"
    /\ SubSeq(result.ret, 9, 12) = << 15, 0, 0, 0 >>
    /\ SubSeq(result.ret, 5, 8) # << 15, 0, 0, 0 >>

\* C4 as stated: bytes 4..7 hold the little-endian payload length and bytes
\* 8..11 the little-endian checksum of the payload.
C4_SizeThenHash ==
    (call.done /\ call.op \in ProducerOps) =>
        /\ Len(result.ret) >= HeaderSize
        /\ SubSeq(result.ret, 5, 8) = U32LE(Len(result.ret) - HeaderSize)
        /\ SubSeq(result.ret, 9, 12) = hashBytecode(Drop(result.ret, HeaderSize))

\* C5 (as the code has it): Decompress returns the buffer unchanged when it is
\* shorter than 16 bytes or does not start with "RBX2"; a buffer of 20 bytes
\* or more that starts with "RBX2" is returned without its first 20 bytes, the
\* rest unchanged and in order; for one of 16 to 19 bytes that starts with
\* "RBX2" nothing is returned, substr throws.
C5_StripOrKeep ==
    (call.done /\ call.op = "Decompress") =>
        IF Len(call.arg) < 16 \/ Take(call.arg, 4) # Magic
        THEN result = Returned(call.arg)
        ELSE IF Len(call.arg) >= SignatureSize
        THEN ~result.threw /\ call.arg = Take(call.arg, SignatureSize) \o result.ret
        ELSE result.threw

\* a buffer longer than the signature, starting with the magic, has been stripped
C5_Witness ==
    /\ call.done /\ call.op = "Decompress"
    /\ Take(call.arg, 4) = Magic
    /\ Len(call.arg) > SignatureSize
    /\ ~result.threw
    /\ Len(result.ret) = Len(call.arg) - SignatureSize

\* C5 as stated: unchanged when the first 4 bytes are not "RBX2"; when they
\* are, the buffer without exactly its first 20 bytes.
C5_MagicAlone ==
    (call.done /\ call.op = "Decompress") =>
        IF Len(call.arg) < 4 \/ Take(call.arg, 4) # Magic
        THEN result = Returned(call.arg)
        ELSE /\ ~result.threw
             /\ Len(call.arg) >= SignatureSize
             /\ call.arg = Take(call.arg, SignatureSize) \o result.ret

\* C6: Decompress is total: for every buffer, those of 16 to 19 bytes that
\* start with "RBX2" included, it returns a buffer and raises no error.
C6_DecompressTotal ==
    (call.done /\ call.op = "Decompress") => ~result.threw

\* C7: no buffer a builder produces (CreatePush*, Compile, Compiler::compile,
\* the BytecodeCache getters) begins with "RBX2", so Decompress returns it
\* unchanged.
C7_NoMagicProduced ==
    (call.done /\ call.op \in ProducerOps) =>
        /\ Take(result.ret, 4) # Magic
        /\ Decompress(result.ret) = Returned(result.ret)

\* a cache getter has returned a buffer long enough for Decompress to look at
C7_Witness ==
    /\ call.op = "getString"
    /\ Len(result.ret) >= SignatureSize
    /\ Decompress(result.ret) = Returned(result.ret)

\* C8: getNumber called twice with the same value returns bit-identical
\* buffers, and called with any value w returns a buffer whose Number constant
\* (the 8 bytes after the count and the tag) is the encoding of w, whatever
\* the cache held before.
C8_NumberBuffers ==
    [][ (caller = "cache" /\ call'.op = "getNumber") =>
            /\ (call.op = "getNumber" /\ call.arg = call'.arg) => result' = result
            /\ SubSeq(result'.ret, HeaderSize + 3, HeaderSize + 10) = call'.arg ]_vars

\* C9: each getter returns exactly what the builder it memoizes returns for
\* the value it was called with, after any sequence of calls and clears:
\* CreatePushBoolean / Number / String of the value, and for getInteger
\* CreatePushNumber of the value widened to double.
C9_TransparentMemo ==
    /\ call.op = "getBoolean" => result = Returned(CreatePushBoolean(call.arg))
    /\ call.op = "getNumber" => result = Returned(CreatePushNumber(call.arg))
    /\ call.op = "getString" => result = Returned(CreatePushString(call.arg))
    /\ call.op = "getInteger" => result = Returned(CreatePushNumber(IntToDouble(call.arg)))

\* C10: a get call removes and overwrites no entry of any of the four maps;
\* clear() leaves all four empty; a get on the empty maps finds nothing and
\* builds its buffer anew.
C10_EntriesLive ==
    [][ caller = "cache" =>
          /\ call'.op \in CacheGetOps =>
                /\ \A k \in DOMAIN boolCache :
                        k \in DOMAIN boolCache' /\ boolCache'[k] = boolCache[k]
                /\ \A k \in DOMAIN stringCache :
                        k \in DOMAIN stringCache' /\ stringCache'[k] = stringCache[k]
                /\ \A k \in DOMAIN integerCache :
                        k \in DOMAIN integerCache' /\ integerCache'[k] = integerCache[k]
                /\ numberCache \sqsubseteq numberCache'
          /\ call'.op = "BytecodeCache::clear" =>
                /\ boolCache' = EmptyMap /\ numberCache' = EmptyBag
                /\ stringCache' = EmptyMap /\ integerCache' = EmptyMap
          /\ ( /\ call'.op \in CacheGetOps
               /\ boolCache = EmptyMap /\ numberCache = EmptyBag
               /\ stringCache = EmptyMap /\ integerCache = EmptyMap ) =>
                ~call'.hit
        ]_vars

\* a getBoolean that missed has stored its entry next to the one already there
C10_Witness ==
    /\ call.op = "getBoolean" /\ ~call.hit
    /\ DOMAIN boolCache = BOOLEAN
    /\ boolCache[~call.arg] = CreatePushBoolean(~call.arg)

\* C11: each getter reads and writes only its own map: it leaves the other
\* three unchanged and hits exactly when its own map holds the key; getInteger
\* neither creates nor uses an entry of the number map.
C11_MapsIndependent ==
    [][ caller = "cache" =>
          /\ call'.op = "getBoolean" =>
                /\ UNCHANGED << numberCache, stringCache, integerCache >>
                /\ call'.hit = MapHas(boolCache, call'.arg)
          /\ call'.op = "getNumber" =>
                /\ UNCHANGED << boolCache, stringCache, integerCache >>
                /\ call'.hit = (NumberFind(numberCache, call'.arg) # {})
          /\ call'.op = "getString" =>
                /\ UNCHANGED << boolCache, numberCache, integerCache >>
                /\ call'.hit = MapHas(stringCache, call'.arg)
          /\ call'.op = "getInteger" =>
                /\ UNCHANGED << boolCache, numberCache, stringCache >>
                /\ call'.hit = MapHas(integerCache, call'.arg)
      ]_vars

\* getInteger(0) has missed and stored its own entry while the number map
\* holds an entry for 0.0
C11_Witness ==
    /\ call.op = "getInteger" /\ call.arg = 0 /\ ~call.hit
    /\ NumberFind(numberCache, IntToDouble(0)) # {}
    /\ MapHas(integerCache, 0)

\* C12: for "return <literal>" Compile returns the matching builder's buffer:
\* CreatePushNil for nil, CreatePushBoolean(b) for true / false,
\* CreatePushNumber(n) for a numeric literal that parses in full, and
\* CreatePushString(s) for a quoted string, s the text between its first and
\* its last quote.
C12_CompileLiteral ==
    (call.done /\ call.op = "Compile" /\ Take(call.arg, 7) = TextReturn) =>
        LET lit == Drop(call.arg, 7) IN
        /\ lit = << 110, 105, 108 >> => result = Returned(CreatePushNil)
        /\ lit = TextTrue => result = Returned(CreatePushBoolean(TRUE))
        /\ lit = TextFalse => result = Returned(CreatePushBoolean(FALSE))
        /\ (lit # << >> /\ lit[1] \notin Space /\ ParsesAsNumber(lit)) =>
                result = Returned(CreatePushNumber(strtod(lit).value))
        /\ (Len(lit) >= 2 /\ lit[1] = Quote /\ lit[Len(lit)] = Quote) =>
                result = Returned(CreatePushString(SubSeq(lit, 2, Len(lit) - 1)))

\* Compile("return 1.5") has returned the buffer of CreatePushNumber(1.5)
C12_Witness ==
    /\ call.done /\ call.op = "Compile"
    /\ call.arg = TextReturn \o Text_1p5
    /\ result = Returned(CreatePushNumber(RationalToDouble(FALSE, 3, 2)))

\* C13: for every input that is not exactly "return " followed by nil, true,
\* false, a numeric literal that parses in full or a quoted string (empty
\* input, extra whitespace, partial matches, unsupported literals), Compile
\* returns the buffer of CreatePushNil and reports no error.
C13_FallbackNil ==
    (call.done /\ call.op = "Compile") =>
        LET lit == Drop(call.arg, 7)
            exact ==
                /\ Take(call.arg, 7) = TextReturn
                /\ \/ lit \in { << 110, 105, 108 >>, TextTrue, TextFalse }
                   \/ lit # << >> /\ lit[1] \notin Space /\ ParsesAsNumber(lit)
                   \/ Len(lit) >= 2 /\ lit[1] = Quote /\ lit[Len(lit)] = Quote
        IN  ~exact => result = Returned(CreatePushNil)

\* C14: the opcode transform x -> (x * 227) mod 256 is a bijection on 0..255:
\* no other input gives the byte an input is encoded as, and the byte is
\* taken back to the input by an inverse (multiplication by 203 mod 256).
C14_OpcodeBijection ==
    (call.done /\ call.op = "encodeOpcode") =>
        /\ result.ret \in Byte
        /\ \A other \in Byte : other # call.arg => encodeOpcode(other) # result.ret
        /\ (result.ret * 203) % 256 = call.arg

\* LOP_NEWTABLE = 45 has been encoded, as 231
C14_Witness ==
    /\ call.done /\ call.op = "encodeOpcode"
    /\ call.arg = LOP_NEWTABLE
    /\ result.ret = 231

\* C15: for every 32-bit unsigned value writeVarInt emits 1 to 5 bytes, bit 7
\* set on every byte but the last, whose low 7 bits read as base-128
\* little-endian digits give the value back bit for bit (no bit beyond the
\* 32nd is set); for values below 2^31 the bytes are those the builders write.
C15_VarIntRoundTrip ==
    (call.done /\ call.op = "writeVarInt") =>
        LET value == call.arg
            out == result.ret
            n == Len(out)
            ValueBit(j) == (value[(j \div 8) + 1] \div Pow(2, j % 8)) % 2
            DecodedBit(j) ==
                IF j \div 7 < n
                THEN ((out[(j \div 7) + 1] % 128) \div Pow(2, j % 7)) % 2
                ELSE 0
        IN  /\ n \in 1..5
            /\ \A i \in 1..n : out[i] \in Byte /\ (out[i] >= 128 <=> i < n)
            /\ \A j \in 0..31 : DecodedBit(j) = ValueBit(j)
            /\ \A j \in 32..34 : DecodedBit(j) = 0
            /\ value[4] < 128 =>
                 out = writeVarInt(value[1] + 256 * value[2] + 65536 * value[3]
                                   + 16777216 * value[4])

\* 4294967295 has been written, as five bytes
C15_Witness ==
    /\ call.done /\ call.op = "writeVarInt"
    /\ call.arg = << 255, 255, 255, 255 >>
    /\ result.ret = << 255, 255, 255, 255, 15 >>

\* C16: the checksum of a byte sequence is the 32-bit FNV-1a fold: from
\* 2166136261 = 33052 * 65536 + 40389, each byte in order is XORed into the
\* state, which is then multiplied by 16777619 = 2^24 + 403 modulo 2^32 (here
\* on the state's two 16-bit halves); the empty sequence gives 2166136261, and
\* the published FNV-1a values of "a" and "foobar" are met.
C16_Fnv1aFold ==
    (call.done /\ call.op = "hashBytecode") =>
        LET data == call.arg
            Fold[k \in 0..Len(data)] ==
                IF k = 0 THEN [hi |-> 33052, lo |-> 40389]
                ELSE LET before == Fold[k - 1]
                         lo == (before.lo \div 256) * 256
                               + XorByte(before.lo % 256, data[k])
                         low == lo * 403
                     IN  [hi |-> (before.hi * 403 + low \div 65536
                                  + (lo % 256) * 256) % 65536,
                          lo |-> low % 65536]
            hash == Fold[Len(data)]
        IN  /\ result.ret = << hash.lo % 256, hash.lo \div 256,
                               hash.hi % 256, hash.hi \div 256 >>
            /\ data = << >> => result.ret = << 197, 157, 28, 129 >>
            /\ data = Text_a => result.ret = << 44, 41, 12, 228 >>
            /\ data = Text_foobar => result.ret = << 104, 249, 156, 191 >>

\* "foobar" has been hashed to 0xBF9CF968
C16_Witness ==
    /\ call.done /\ call.op = "hashBytecode"
    /\ call.arg = Text_foobar
    /\ result.ret = << 104, 249, 156, 191 >>

\* C17: CreatePushArray called with an empty sequence returns a buffer equal,
\* byte for byte, to the one CreatePushTable(0, 0) returns.
C17_EmptyArrayIsTable ==
    (call.done /\ call.op = "CreatePushArray" /\ call.arg = << >>) =>
        /\ Len(result.ret) = Len(CreatePushTable(0, 0))
        /\ \A i \in 1..Len(result.ret) : result.ret[i] = CreatePushTable(0, 0)[i]

\* CreatePushArray has returned for the empty sequence
C17_Witness ==
    /\ call.done /\ call.op = "CreatePushArray" /\ call.arg = << >>
    /\ result.ret = CreatePushTable(0, 0)

\* C18: CreatePushNumber(n) has header version 2, a constant pool of exactly
\* one entry, tagged Number, whose 8 bytes are the bit pattern of n least
\* significant byte first (1.5 is 0x3FF8000000000000), and exactly one
\* instruction, the load of constant 0 into register 0 (LOP_LOADN);
\* CreatePushString(s) has exactly one entry, tagged String, holding the varint
\* length of s and its raw bytes, and exactly one instruction, the load of
\* constant 0 into register 0 (LOP_LOADK).
C18_OneConstantOneLoad ==
    /\ (call.done /\ call.op = "CreatePushNumber") =>
        LET b == result.ret
        IN  /\ Len(b) = 37
            /\ b[1] = 2
            /\ b[13] = 1
            /\ b[14] = LBC_CONSTANT_NUMBER
            /\ SubSeq(b, 15, 22) = call.arg
            /\ call.arg = RationalToDouble(FALSE, 3, 2)
                   => SubSeq(b, 15, 22) = << 0, 0, 0, 0, 0, 0, 248, 63 >>
            /\ b[23] = 1
            /\ b[28] = 1
            /\ SubSeq(b, 29, 31) = << encodeOpcode(LOP_LOADN), 0, 0 >>
            /\ SubSeq(b, 32, 37) = << 1, 0, 0, 0, 0, 0 >>
    /\ (call.done /\ call.op = "CreatePushString") =>
        LET b == result.ret
            s == call.arg
            v == IF Len(s) < 128 THEN 1 ELSE 2
            e == 14 + v + Len(s)
        IN  /\ Len(b) = e + 15
            /\ b[1] = 2
            /\ b[13] = 1
            /\ b[14] = LBC_CONSTANT_STRING
            /\ SubSeq(b, 15, 14 + v)
                   = IF Len(s) < 128 THEN << Len(s) >>
                     ELSE << 128 + (Len(s) % 128), Len(s) \div 128 >>
            /\ SubSeq(b, 15 + v, e) = s
            /\ b[e + 1] = 1
            /\ b[e + 6] = 1
            /\ SubSeq(b, e + 7, e + 9) = << encodeOpcode(LOP_LOADK), 0, 0 >>
            /\ SubSeq(b, e + 10, e + 15) = << 1, 0, 0, 0, 0, 0 >>

\* CreatePushNumber has returned for 1.5:
\* the constant of 1.5 is in the buffer
C18_Witness ==
    /\ call.done /\ call.op = "CreatePushNumber"
    /\ call.arg = RationalToDouble(FALSE, 3, 2)
    /\ SubSeq(result.ret, 13, 22) = << 1, LBC_CONSTANT_NUMBER, 0, 0, 0, 0, 0, 0, 248, 63 >>

\* C19: CreatePushNil, CreatePushBoolean(b) and CreatePushTable(a, h) each
\* write a constant count of 0 and exactly one instruction, on register 0:
\* load-nil; load-boolean with b inline as an operand byte, 1 for true and 0
\* for false; new-table with the two size hints as operand bytes, array hint
\* first (each hint converted to uint8_t, so a hint in 0..255 is the byte).
C19_NoConstantOneInstruction ==
    /\ (call.done /\ call.op = "CreatePushNil") =>
        LET b == result.ret
        IN  /\ Len(b) = 27
            /\ b[13] = 0
            /\ b[19] = 1
            /\ SubSeq(b, 20, 21) = << encodeOpcode(LOP_LOADNIL), 0 >>
            /\ SubSeq(b, 22, 27) = << 0, 0, 0, 0, 0, 0 >>
    /\ (call.done /\ call.op = "CreatePushBoolean") =>
        LET b == result.ret
        IN  /\ Len(b) = 29
            /\ b[13] = 0
            /\ b[19] = 1
            /\ SubSeq(b, 20, 21) = << encodeOpcode(LOP_LOADB), 0 >>
            /\ b[22] = (IF call.arg THEN 1 ELSE 0)
            /\ SubSeq(b, 24, 29) = << 0, 0, 0, 0, 0, 0 >>
    /\ (call.done /\ call.op = "CreatePushTable") =>
        LET b == result.ret
            arraySize == call.arg[1]
            hashSize == call.arg[2]
        IN  /\ Len(b) = 29
            /\ b[13] = 0
            /\ b[19] = 1
            /\ SubSeq(b, 20, 21) = << encodeOpcode(LOP_NEWTABLE), 0 >>
            /\ b[22] = arraySize % 256
            /\ b[23] = hashSize % 256
            /\ arraySize \in Byte => b[22] = arraySize
            /\ hashSize \in Byte => b[23] = hashSize
            /\ SubSeq(b, 24, 29) = << 0, 0, 0, 0, 0, 0 >>

\* CreatePushTable(5, 1) has returned its one new-table instruction
C19_Witness ==
    /\ call.done /\ call.op = "CreatePushTable"
    /\ call.arg = << 5, 1 >>
    /\ SubSeq(result.ret, 19, 23) = << 1, encodeOpcode(LOP_NEWTABLE), 0, 5, 1 >>

\* C20: for a non-empty sequence of n strings CreatePushArray writes
\* maxstacksize 1 + n and exactly n + 2 instructions in this order: new-table
\* into register 0 sized n, for each element i (0-based) the load of constant
\* i into register i + 1, and set-list on the table in register 0 with n values.
C20_ArrayInstructions ==
    (call.done /\ call.op = "CreatePushArray" /\ call.arg # << >>) =>
        LET b == result.ret
            values == call.arg
            n == Len(values)
            pool == writeVarInt(n) \o Flatten([ i \in 1..n |-> StringConstant(values[i]) ])
            c == HeaderSize + Len(pool)
            m == Len(writeVarInt(1 + n))
            k == Len(writeVarInt(n + 2))
            q == c + 1 + m + 3 + k
        IN  /\ SubSeq(b, HeaderSize + 1, c) = pool
            /\ b[c + 1] = 1
            /\ SubSeq(b, c + 2, c + 1 + m) = writeVarInt(1 + n)
            /\ SubSeq(b, c + 2 + m, c + 4 + m) = << 0, 0, 0 >>
            /\ SubSeq(b, c + 5 + m, q) = writeVarInt(n + 2)
            /\ SubSeq(b, q + 1, q + 4) = << encodeOpcode(LOP_NEWTABLE), 0, n, 0 >>
            /\ \A i \in 0..(n - 1) :
                   SubSeq(b, q + 5 + 3 * i, q + 7 + 3 * i)
                       = << encodeOpcode(LOP_LOADK), i + 1, i >>
            /\ SubSeq(b, q + 5 + 3 * n, q + 8 + 3 * n)
                   = << encodeOpcode(LOP_SETLIST), 0, n, 0 >>
            /\ Len(b) = q + 8 + 3 * n + Len(ProtoTail(n))

\* C21: for a non-empty sequence of n strings CreatePushMultiple classifies
\* each element as boolean (exactly "true" or "false"), number (strtod takes
\* the whole text) or string (anything else) and emits exactly n instructions,
\* instruction i (0-based) being the load of element i's class (LOADB, LOADN,
\* LOADK) with register operand i.
C21_MultipleLoads ==
    (call.done /\ call.op = "CreatePushMultiple" /\ call.arg # << >>) =>
        LET b == result.ret
            values == call.arg
            n == Len(values)
            IsBoolean(i) == values[i] \in { TextTrue, TextFalse }
            IsNumber(i) == ~IsBoolean(i) /\ ParsesAsNumber(values[i])
            opcode(i) == IF IsBoolean(i) THEN LOP_LOADB
                         ELSE IF IsNumber(i) THEN LOP_LOADN ELSE LOP_LOADK
            \* bytes of the instructions before instruction i (1-based)
            before(i) == 3 * (i - 1) + Cardinality({ j \in 1..(i - 1) : IsBoolean(j) })
            tail == Len(writeVarInt(n)) + 5
            first == Len(b) - tail - before(n + 1)
        IN  /\ first > HeaderSize + Len(writeVarInt(n))
            /\ SubSeq(b, first - Len(writeVarInt(n)) + 1, first) = writeVarInt(n)
            /\ \A i \in 1..n :
                   /\ b[first + before(i) + 1] = encodeOpcode(opcode(i))
                   /\ b[first + before(i) + 2] = i - 1

(***************************************************************************)
(* Reading a module back: the layout the builders write, walked from the   *)
(* bytes of a buffer alone                                                 *)
(***************************************************************************)
\* how many bytes the varint at position p of b takes; 0 when there is none
VarIntLen(b, p) ==
    LET ks == { k \in 1..5 :
                  /\ p >= 1
                  /\ p + k - 1 <= Len(b)
                  /\ b[p + k - 1] < 128
                  /\ \A j \in 1..(k - 1) : b[p + j - 1] >= 128 }
    IN  IF ks = { } THEN 0 ELSE CHOOSE k \in ks : TRUE

\* the value of the varint at position p of b (base 128, least significant
\* group first); -1 when there is none or it takes more than four bytes
VarIntValue(b, p) ==
    LET k == VarIntLen(b, p)
        group(j) == IF j < k THEN b[p + j] % 128 ELSE 0
    IN  IF k = 0 \/ k = 5 THEN -1
        ELSE group(0) + 128 * group(1) + 16384 * group(2) + 2097152 * group(3)

\* the position after the varint at position p of b; 0 when there is none
VarIntEnd(b, p) == IF VarIntLen(b, p) = 0 THEN 0 ELSE p + VarIntLen(b, p)

\* the position after the constant entry at position p of b: a tag, then one
\* byte (boolean), eight bytes (number) or a varint length and that many bytes
\* (string); 0 when there is no entry
ConstantEnd(b, p) ==
    IF p < 1 \/ p > Len(b) THEN 0
    ELSE IF b[p] = LBC_CONSTANT_BOOLEAN THEN p + 2
    ELSE IF b[p] = LBC_CONSTANT_NUMBER THEN p + 9
    ELSE IF b[p] = LBC_CONSTANT_STRING /\ VarIntValue(b, p + 1) >= 0
         THEN VarIntEnd(b, p + 1) + VarIntValue(b, p + 1)
    ELSE 0

\* the position after the entries lo..hi of the pool when entry lo is at p
ConstantsEnd[b \in Seq(Byte), lo \in Int, hi \in Int, p \in Int] ==
    IF lo > hi THEN p
    ELSE IF lo = hi THEN ConstantEnd(b, p)
    ELSE LET mid == (lo + hi) \div 2
         IN  ConstantsEnd[b, mid + 1, hi, ConstantsEnd[b, lo, mid, p]]

\* the logical opcode of an encoded opcode byte
decodeOpcode(byte) == (byte * 203) % 256

\* the bytes the builders write for one instruction of each opcode they emit;
\* 0 for the others
InstructionLength(opcode) ==
    IF opcode = LOP_LOADNIL THEN 2
    ELSE IF opcode \in { LOP_LOADN, LOP_LOADK } THEN 3
    ELSE IF opcode \in { LOP_LOADB, LOP_NEWTABLE, LOP_SETLIST } THEN 4
    ELSE 0

\* the position after the instruction at position p of b; 0 when there is none
InstructionEnd(b, p) ==
    IF p < 1 \/ p > Len(b) \/ InstructionLength(decodeOpcode(b[p])) = 0 THEN 0
    ELSE p + InstructionLength(decodeOpcode(b[p]))

\* the position after the instructions lo..hi when instruction lo is at p
InstructionsEnd[b \in Seq(Byte), lo \in Int, hi \in Int, p \in Int] ==
    IF lo > hi THEN p
    ELSE IF lo = hi THEN InstructionEnd(b, p)
    ELSE LET mid == (lo + hi) \div 2
         IN  InstructionsEnd[b, mid + 1, hi, InstructionsEnd[b, lo, mid, p]]

\* the fields of the module in buffer b and the positions of its parts
ReadModule(b) ==
    LET pool == VarIntEnd(b, HeaderSize + 1)
        count == VarIntValue(b, HeaderSize + 1)
        functions == ConstantsEnd[b, 1, count, pool]
        maxstacksize == VarIntEnd(b, functions)
        numparams == VarIntEnd(b, maxstacksize)
        numupvalues == VarIntEnd(b, numparams)
        is_vararg == VarIntEnd(b, numupvalues)
        instructions == VarIntEnd(b, is_vararg)
        code == VarIntEnd(b, instructions)
        sizeK == InstructionsEnd[b, 1, VarIntValue(b, instructions), code]
    IN  [ count |-> count,
          pool |-> pool,
          functions |-> VarIntValue(b, functions),
          maxstacksize |-> VarIntValue(b, maxstacksize),
          numparams |-> VarIntValue(b, numparams),
          numupvalues |-> VarIntValue(b, numupvalues),
          is_vararg |-> VarIntValue(b, is_vararg),
          instructions |-> VarIntValue(b, instructions),
          code |-> code,
          sizeK |-> VarIntValue(b, sizeK),
          tail |-> sizeK ]

\* the position of instruction k (1-based) of the module m read from b
InstructionAt(b, m, k) == InstructionsEnd[b, 1, k - 1, m.code]

\* the position of constant entry k (0-based) of the module m read from b
ConstantAt(b, m, k) == ConstantsEnd[b, 1, k, m.pool]

\* C22: in every buffer a builder returns, every register operand of every
\* instruction is smaller than the maxstacksize written in the proto.
C22_RegistersBelowMaxStack ==
    (call.done /\ call.op \in CreatePushOps) =>
        LET b == result.ret
            m == ReadModule(b)
        IN  \A k \in 1..m.instructions :
                b[InstructionAt(b, m, k) + 1] < m.maxstacksize

\* the bytes of the String entry at position e of b, the bytes of the Number
\* entry at position e of b
StringEntry(b, e) ==
    SubSeq(b, VarIntEnd(b, e + 1), VarIntEnd(b, e + 1) + VarIntValue(b, e + 1) - 1)
NumberEntry(b, e) == SubSeq(b, e + 1, e + 8)

\* C23: in every buffer of CreatePushNumber, CreatePushString, CreatePushArray
\* and CreatePushMultiple every constant-index operand is smaller than the
\* constant count, and the entry at that index is the Number entry holding the
\* number, or the String entry holding the string, of the element the
\* instruction loads.
C23_ConstantIndices ==
    (/\ call.done
     /\ call.op \in { "CreatePushNumber", "CreatePushString", "CreatePushArray",
                      "CreatePushMultiple" }
     /\ ~(call.op \in { "CreatePushArray", "CreatePushMultiple" } /\ call.arg = << >>)) =>
        LET b == result.ret
            m == ReadModule(b)
            \* the element instruction k loads
            element(k) ==
                IF call.op = "CreatePushArray" THEN call.arg[k - 1]
                ELSE IF call.op = "CreatePushMultiple" THEN call.arg[k]
                ELSE call.arg
            number(k) ==
                IF call.op = "CreatePushNumber" THEN element(k) ELSE strtod(element(k)).value
        IN  \A k \in 1..m.instructions :
                LET at == InstructionAt(b, m, k)
                    opcode == decodeOpcode(b[at])
                    entry == ConstantAt(b, m, b[at + 2])
                IN  /\ opcode \in { LOP_LOADN, LOP_LOADK } => b[at + 2] < m.count
                    /\ opcode = LOP_LOADN =>
                         b[entry] = LBC_CONSTANT_NUMBER /\ NumberEntry(b, entry) = number(k)
                    /\ opcode = LOP_LOADK =>
                         b[entry] = LBC_CONSTANT_STRING /\ StringEntry(b, entry) = element(k)

\* C24: the byte length of every instruction in a builder's buffer follows
\* the classification of isDoubleByteOpcode: an opcode classified single-word
\* is written as the opcode byte and at most 2 operand bytes, an opcode
\* classified double-word as the opcode byte, operand bytes and 2 more bytes.
C24_WidthFollowsTable ==
    (call.done /\ call.op \in CreatePushOps) =>
        LET b == result.ret
            m == ReadModule(b)
        IN  \A k \in 1..m.instructions :
                LET at == InstructionAt(b, m, k)
                    length == InstructionAt(b, m, k + 1) - at
                IN  IF isDoubleByteOpcode(decodeOpcode(b[at]))
                    THEN length >= 3
                    ELSE length >= 1 /\ length <= 3

\* C25: the payload of the module compile() returns is, in order, the varint
\* count of all accumulated constants, one tagged entry per constant with its
\* full payload (8 bytes per number, 1 byte per boolean, varint length and
\* bytes per string), and then a function proto with the debug-info tail.
C25_CompilePayload ==
    (call.done /\ call.op = "compile") =>
        LET payload == Drop(result.ret, HeaderSize)
            pool == writeVarInt(Len(numberConstants) + Len(boolConstants) + Len(constants))
                    \o Flatten([ k \in 1..Len(numberConstants) |->
                                   NumberConstant(numberConstants[k]) ])
                    \o Flatten([ k \in 1..Len(boolConstants) |->
                                   BooleanConstant(boolConstants[k]) ])
                    \o Flatten([ k \in 1..Len(constants) |-> StringConstant(constants[k]) ])
        IN  /\ Take(payload, Len(pool)) = pool
            /\ Len(payload) > Len(pool)

\* C26: the constant index pushNumber and pushString write into their load
\* instruction is the position of the constant they registered in the one
\* pool compile() writes: numbers first, then booleans, then strings.
C26_PushIndexIsPoolPosition ==
    /\ (call.done /\ call.op = "pushNumber") =>
           bytecode[Len(bytecode)] = Len(numberConstants) - 1
    /\ (call.done /\ call.op = "pushString") =>
           bytecode[Len(bytecode)]
               = Len(numberConstants) + Len(boolConstants) + Len(constants) - 1

\* C27: a buffer that has the length and the header of a buffer accepted by
\* ValidateBytecode and differs from it in exactly one payload byte is
\* rejected by ValidateBytecode, and its payload has another checksum.
C27_OneByteChangeRejected ==
    (call.done /\ call.op = "ValidateBytecode") =>
        \A base \in Accepted :
            (/\ ValidateBytecode(base)
             /\ Len(call.arg) = Len(base)
             /\ Take(call.arg, HeaderSize) = Take(base, HeaderSize)
             /\ Cardinality({ i \in (HeaderSize + 1)..Len(base) : call.arg[i] # base[i] }) = 1)
            => /\ result.ret = FALSE
               /\ hashBytecode(Drop(call.arg, HeaderSize))
                      # hashBytecode(Drop(base, HeaderSize))

\* the buffer of CreatePushNil with its last byte changed from 0 to 1 has
\* been rejected
C27_Witness ==
    /\ call.done /\ call.op = "ValidateBytecode"
    /\ call.arg = [ CreatePushNil EXCEPT ![Len(CreatePushNil)] = 1 ]
    /\ ValidateBytecode(CreatePushNil)
    /\ result.ret = FALSE

\* C28: in every buffer a builder returns the counts agree with the content:
\* the constant count at the start of the payload is the number of constant
\* entries that follow it (the proto starts right after that many entries)
\* and equals the SizeK field, and the instruction count is the number of
\* instructions that follow it (SizeK and the rest of the trailer start right
\* after that many instructions and end the buffer).
C28_CountsAgree ==
    (call.done /\ call.op \in CreatePushOps) =>
        LET b == result.ret
            m == ReadModule(b)
            n == IF call.op \in { "CreatePushArray", "CreatePushMultiple" }
                 THEN Len(call.arg) ELSE 0
            entries == IF call.op \in { "CreatePushNumber", "CreatePushString" } THEN 1 ELSE n
            written == IF n = 0 THEN 1
                       ELSE IF call.op = "CreatePushArray" THEN n + 2 ELSE n
        IN  /\ m.count = entries
            /\ m.functions = 1
            /\ m.instructions = written
            /\ m.code > 0
            /\ m.tail > 0
            /\ m.sizeK = m.count
            /\ Len(b) = VarIntEnd(b, m.tail) + 4
            /\ SubSeq(b, VarIntEnd(b, m.tail), Len(b)) = << 0, 0, 0, 0, 0 >>

\* CreatePushMultiple has returned for "a" and "1.5": two entries, two
\* instructions, SizeK 2
C28_Witness ==
    /\ call.done /\ call.op = "CreatePushMultiple"
    /\ call.arg = << Text_a, Text_1p5 >>
    /\ ReadModule(result.ret).count = 2
    /\ ReadModule(result.ret).instructions = 2
    /\ ReadModule(result.ret).sizeK = 2

\* C29: every builder writes the same calling metadata in its proto:
\* numparams 0, numupvalues 0 and is_vararg 0.
C29_SameCallingMetadata ==
    (call.done /\ call.op \in CreatePushOps) =>
        LET m == ReadModule(result.ret)
        IN  /\ m.numparams = 0
            /\ m.numupvalues = 0
            /\ m.is_vararg = 0

\* C30: compile() only observes the builder: a call of compile() leaves the
\* accumulated instruction buffer and the three constant lists as they were,
\* so getBytecode() returns the same bytes before and after it.
C30_CompileObservesOnly ==
    [][compile => UNCHANGED << bytecode, constants, numberConstants, boolConstants >>]_vars

====
